---- MODULE Spec2Model ----
(***************************************************************************)
(* A model of bifrost's bridge factory (NewRainbowBridge and the adapter   *)
(* constructors) and of the S3 adapter SimpleStorageService (UploadFile,   *)
(* Config, Disconnect, IsConnected, UploadFolder), src/s3/s3.go.           *)
(*                                                                         *)
(* Strings that the code only copies or compares are TLA+ strings; the     *)
(* provider identifier, which the code lower-cases, is a sequence of       *)
(* characters so that strings.ToLower is computed, not assumed.            *)
(***************************************************************************)
EXTENDS Integers, Sequences, FiniteSets, TLC

VARIABLES
    bc,        \* the caller's *BridgeConfig (NilConfig for a nil pointer)
    bridge,    \* the handle NewRainbowBridge returned (NoBridge before / on error)
    made,      \* what the NewRainbowBridge call did and returned
    call       \* the caller's call on the handle: in flight, or the last returned

vars == <<bc, bridge, made, call>>

----------------------------------------------------------------------------
(* Error kinds of shared/errors (BifrostError.ErrorCode); NoErr is a nil error. *)

NoErr == "nil"
ErrBadRequest == "BadRequest"
ErrUnauthorized == "Unauthorized"
ErrClientError == "ClientError"
ErrFileOperationFailed == "FileOperationFailed"

(* The panic of a method call through a nil *s3.Client: not an error value. *)
NilClientPanic == "panic: nil pointer dereference"

----------------------------------------------------------------------------
(* strings.ToLower on the letters the identifiers use. *)

Upper == <<"A", "C", "G", "I", "N", "P", "S", "T">>
Lower == <<"a", "c", "g", "i", "n", "p", "s", "t">>

ToLowerChar(c) ==
    IF \E i \in DOMAIN Upper : Upper[i] = c
    THEN Lower[CHOOSE i \in DOMAIN Upper : Upper[i] = c]
    ELSE c

ToLower(s) == [i \in DOMAIN s |-> ToLowerChar(s[i])]

(* The registry of supported backends: identifier -> display name. *)
ProviderKeys == {<<"s", "3">>, <<"g", "c", "s">>, <<"p", "i", "n", "a", "t", "a">>}

providers == [k \in ProviderKeys |-> <<"provider">> \o k]

(* providers[key] of a Go map: the zero string for a key that is absent. *)
ProviderName(key) == IF key \in DOMAIN providers THEN providers[key] ELSE <<>>

----------------------------------------------------------------------------
(* The configurations a caller may pass. *)

ProviderInputs ==
    { <<>>, <<"s", "3">>, <<"S", "3">>, <<"g", "c", "s">>, <<"G", "c", "s">>,
      <<"p", "i", "n", "a", "t", "a">>, <<"P", "I", "N", "A", "T", "A">>,
      <<"a", "z", "u", "r", "e">> }

Buckets == {"", "b"}
Regions == {"r"}
AccessKeys == {"", "A"}
SecretKeys == {"", "B"}
Timeouts == {0, 5}
JWTs == {"", "jwt"}
CredentialsFiles == {"", "cf"}

BridgeConfig ==
    [ isNil : {FALSE},
      Provider : ProviderInputs,
      DefaultBucket : Buckets,
      Region : Regions,
      AccessKey : AccessKeys,
      SecretKey : SecretKeys,
      DefaultTimeout : Timeouts,
      EnableDebug : BOOLEAN,
      PublicRead : BOOLEAN,
      UseAsync : BOOLEAN,
      PinataJWT : JWTs,
      CredentialsFile : CredentialsFiles,
      Project : {"proj"} ]

NilConfig == [isNil |-> TRUE]

Configs == BridgeConfig \cup {NilConfig}

----------------------------------------------------------------------------
(* Handles.  A native client reference is "nil" or names how it was built. *)

NilClient == "nil"

NoBridge == [kind |-> "none"]

(* What an adapter constructor returns: the handle or the error, how many   *)
(* authenticating client creations it attempted, how many clients it made. *)
Returned(b, e, attempts, clients) ==
    [bridge |-> b, err |-> e, attempts |-> attempts, clients |-> clients]

(* newSimpleStorageService.  loadOk: whether config.LoadDefaultConfig       *)
(* succeeds.  The struct literal sets seven fields; DefaultTimeout,        *)
(* EnableDebug and UseAsync keep Go's zero values.                         *)
newSimpleStorageService(g, loadOk) ==
    LET static == g.AccessKey # "" /\ g.SecretKey # ""
        client == IF static THEN "s3-static-credentials" ELSE "s3-shared-config"
    IN  IF ~loadOk
        THEN Returned(NoBridge, ErrUnauthorized, 1, 0)
        ELSE Returned(
               [ kind |-> "s3",
                 Provider |-> ProviderName(ToLower(g.Provider)),
                 DefaultBucket |-> g.DefaultBucket,
                 Region |-> g.Region,
                 PublicRead |-> g.PublicRead,
                 SecretKey |-> g.SecretKey,
                 AccessKey |-> g.AccessKey,
                 Client |-> client,
                 DefaultTimeout |-> 0,
                 EnableDebug |-> FALSE,
                 UseAsync |-> FALSE ],
               NoErr, 1, 1)

(* newGoogleCloudStorage that tries storage.NewClient a second time after  *)
(* a failure.                                                              *)
newGoogleCloudStorage_Retry(g, clientOk) ==
    IF ~clientOk
    THEN Returned(NoBridge, ErrUnauthorized, 2, 0)
    ELSE Returned(
           [ kind |-> "gcs",
             Provider |-> ProviderName(ToLower(g.Provider)),
             DefaultBucket |-> g.DefaultBucket,
             CredentialsFile |-> g.CredentialsFile,
             Project |-> g.Project,
             DefaultTimeout |-> g.DefaultTimeout,
             Client |-> IF g.CredentialsFile # ""
                        THEN "gcs-credentials-file" ELSE "gcs-ambient",
             EnableDebug |-> g.EnableDebug,
             PublicRead |-> g.PublicRead,
             UseAsync |-> g.UseAsync ],
           NoErr, 1, 1)

(* newGoogleCloudStorage.  clientOk: whether storage.NewClient succeeds. *)
newGoogleCloudStorage(g, clientOk) ==
    LET client == IF g.CredentialsFile # ""
                  THEN "gcs-credentials-file" ELSE "gcs-ambient"
    IN  IF ~clientOk
        THEN Returned(NoBridge, ErrUnauthorized, 1, 0)
        ELSE Returned(
               [ kind |-> "gcs",
                 Provider |-> ProviderName(ToLower(g.Provider)),
                 DefaultBucket |-> g.DefaultBucket,
                 CredentialsFile |-> g.CredentialsFile,
                 Project |-> g.Project,
                 DefaultTimeout |-> g.DefaultTimeout,
                 Client |-> client,
                 EnableDebug |-> g.EnableDebug,
                 PublicRead |-> g.PublicRead,
                 UseAsync |-> g.UseAsync ],
               NoErr, 1, 1)

(* newPinataIPFS: no client is created; the token is only stored. *)
newPinataIPFS(g) ==
    IF g.PinataJWT = ""
    THEN Returned(NoBridge, ErrUnauthorized, 0, 0)
    ELSE Returned(
           [ kind |-> "pinata",
             PinataJWT |-> g.PinataJWT,
             Provider |-> ProviderName(ToLower(g.Provider)),
             DefaultBucket |-> g.DefaultBucket,
             CredentialsFile |-> g.CredentialsFile,
             Project |-> g.Project,
             DefaultTimeout |-> g.DefaultTimeout,
             EnableDebug |-> g.EnableDebug,
             PublicRead |-> g.PublicRead,
             UseAsync |-> g.UseAsync ],
           NoErr, 0, 0)

(* The dispatch of NewRainbowBridge: a switch on bc.Provider as given. *)
Dispatch(c, authOk) ==
    CASE c.Provider = <<"s", "3">> ->
           [adapter |-> "s3", ret |-> newSimpleStorageService(c, authOk)]
      [] c.Provider = <<"g", "c", "s">> ->
           [adapter |-> "gcs", ret |-> newGoogleCloudStorage(c, authOk)]
      [] c.Provider = <<"p", "i", "n", "a", "t", "a">> ->
           [adapter |-> "pinata", ret |-> newPinataIPFS(c)]
      [] OTHER ->
           [adapter |-> "default", ret |-> Returned(NoBridge, ErrBadRequest, 0, 0)]

(* NewRainbowBridge with an empty default bucket made a validation error. *)
NewRainbowBridge_EmptyBucketFatal(c, authOk) ==
    LET rejected(step) ==
            [ failed |-> step, adapter |-> "none", warned |-> FALSE,
              ret |-> Returned(NoBridge, ErrBadRequest, 0, 0) ]
    IN  IF c.isNil THEN rejected("nil config")
        ELSE IF c.Provider = <<>> THEN rejected("no provider")
        ELSE IF ToLower(c.Provider) \notin DOMAIN providers
             THEN rejected("invalid provider")
        ELSE IF c.DefaultBucket = "" THEN rejected("no bucket")
        ELSE LET d == Dispatch(c, authOk)
             IN  [ failed |-> "none", adapter |-> d.adapter,
                   warned |-> FALSE, ret |-> d.ret ]

(* NewRainbowBridge.  `failed` names the validation step that returned, or  *)
(* "none"; the reflection checks on the type of bc cannot fail for a       *)
(* *BridgeConfig and are not steps of the model.                           *)
NewRainbowBridge(c, authOk) ==
    LET rejected(step) ==
            [ failed |-> step, adapter |-> "none", warned |-> FALSE,
              ret |-> Returned(NoBridge, ErrBadRequest, 0, 0) ]
    IN  IF c.isNil THEN rejected("nil config")
        ELSE IF c.Provider = <<>> THEN rejected("no provider")
        ELSE IF ToLower(c.Provider) \notin DOMAIN providers
             THEN rejected("invalid provider")
        ELSE LET d == Dispatch(c, authOk)
             IN  [ failed |-> "none", adapter |-> d.adapter,
                   warned |-> (c.DefaultBucket = "" /\ c.EnableDebug),
                   ret |-> d.ret ]

----------------------------------------------------------------------------
(* The options map of an upload.  A value of type interface{} carries its  *)
(* dynamic type, which the type assertions v.(string), v.(map[string]string) *)
(* inspect.                                                                *)

OptACL == "acl"
OptContentType == "content-type"
OptMetadata == "metadata"
ACLPublicRead == "public-read"
ACLPrivate == "private"

ObjectCannedACLPublicRead == "public-read"
ObjectCannedACLPrivate == "private"

StringValue(v) == [type |-> "string", val |-> v]

OptionKeys == {OptACL, OptContentType, OptMetadata, "cache-control"}

OptionValues(k) ==
    CASE k = OptACL ->
           { StringValue(ACLPublicRead), StringValue(ACLPrivate),
             StringValue("authenticated-read"), [type |-> "int", val |-> "1"] }
      [] k = OptContentType ->
           { StringValue("text/plain"), [type |-> "int", val |-> "1"] }
      [] k = OptMetadata ->
           { [type |-> "map[string]string", val |-> "{a: 1}"],
             [type |-> "map[string]interface{}", val |-> "{a: 1}"] }
      [] OTHER -> { StringValue("no-cache") }

(* No entry for k, or one entry k -> v. *)
Entries(k) == {<<>>} \cup {k :> v : v \in OptionValues(k)}

OptionMaps ==
    { a @@ c @@ m @@ o : a \in Entries(OptACL), c \in Entries(OptContentType),
                         m \in Entries(OptMetadata), o \in Entries("cache-control") }

(* The orders in which `range options` may visit the keys. *)
IterationOrders(keys) ==
    { s \in [1..Cardinality(keys) -> keys] :
        \A i, j \in 1..Cardinality(keys) : s[i] = s[j] => i = j }

Unset == "<nil>"

(* The PutObjectInput before the options are applied. *)
BaseParams(s, filename) ==
    [ Bucket |-> s.DefaultBucket,
      Key |-> filename,
      Body |-> "file",
      ACL |-> IF s.PublicRead THEN ObjectCannedACLPublicRead ELSE "",
      ContentType |-> Unset,
      Metadata |-> Unset ]

(* ApplyOption without the case for "private". *)
ApplyOption_PrivateIgnored(params, k, v) ==
    CASE k = OptACL ->
           IF v.type = "string" /\ v.val = ACLPublicRead
           THEN [params EXCEPT !.ACL = ObjectCannedACLPublicRead]
           ELSE params
      [] k = OptContentType ->
           IF v.type = "string" THEN [params EXCEPT !.ContentType = v.val]
           ELSE params
      [] k = OptMetadata ->
           IF v.type = "map[string]string" THEN [params EXCEPT !.Metadata = v.val]
           ELSE params
      [] OTHER -> params

(* ApplyOption converting any access-control string to a canned ACL. *)
ApplyOption_AnyACLString(params, k, v) ==
    CASE k = OptACL ->
           IF v.type = "string" THEN [params EXCEPT !.ACL = v.val] ELSE params
      [] k = OptContentType ->
           IF v.type = "string" THEN [params EXCEPT !.ContentType = v.val]
           ELSE params
      [] k = OptMetadata ->
           IF v.type = "map[string]string" THEN [params EXCEPT !.Metadata = v.val]
           ELSE params
      [] OTHER -> params

(* ApplyOption whose content-type case also resets the grant to the        *)
(* backend's default.                                                      *)
ApplyOption_ContentTypeResetsACL(params, k, v) ==
    CASE k = OptACL ->
           IF v.type = "string"
           THEN CASE v.val = ACLPublicRead ->
                       [params EXCEPT !.ACL = ObjectCannedACLPublicRead]
                  [] v.val = ACLPrivate ->
                       [params EXCEPT !.ACL = ObjectCannedACLPrivate]
                  [] OTHER -> params
           ELSE params
      [] k = OptContentType ->
           IF v.type = "string"
           THEN [params EXCEPT !.ContentType = v.val, !.ACL = ""]
           ELSE params
      [] k = OptMetadata ->
           IF v.type = "map[string]string" THEN [params EXCEPT !.Metadata = v.val]
           ELSE params
      [] OTHER -> params

(* One iteration of the loop over the options: the switch on the key. *)
ApplyOption(params, k, v) ==
    CASE k = OptACL ->
           IF v.type = "string"
           THEN CASE v.val = ACLPublicRead ->
                       [params EXCEPT !.ACL = ObjectCannedACLPublicRead]
                  [] v.val = ACLPrivate ->
                       [params EXCEPT !.ACL = ObjectCannedACLPrivate]
                  [] OTHER -> params
           ELSE params
      [] k = OptContentType ->
           IF v.type = "string" THEN [params EXCEPT !.ContentType = v.val]
           ELSE params
      [] k = OptMetadata ->
           IF v.type = "map[string]string" THEN [params EXCEPT !.Metadata = v.val]
           ELSE params
      [] OTHER -> params

(* The loop over the options, visiting the keys in `order`. *)
RECURSIVE MergeOptions(_, _, _)
MergeOptions(params, options, order) ==
    IF order = <<>> THEN params
    ELSE MergeOptions(ApplyOption(params, Head(order), options[Head(order)]),
                      options, Tail(order))

----------------------------------------------------------------------------
(* The local filesystem and the backend, as an upload meets them. *)

Paths == {"/missing", "/unreadable", "/photo.png"}
Filenames == {"photo.png"}
Sizes == {0, 1024}

(* os.Stat reports IsNotExist. *)
NotExist(path) == path = "/missing"

(* os.Open returns an error. *)
OpenFails(path) == path \in {"/missing", "/unreadable"}

(* fmt.Sprintf(config.URLSimpleStorageService, bucket, region, key): the   *)
(* format "https://%s.s3.%s.amazonaws.com/%s" filled in.                   *)
URLSimpleStorageService(bucket, region, key) ==
    "https://" \o bucket \o ".s3." \o region \o ".amazonaws.com/" \o key

NoParams == [built |-> FALSE]
NoFile == [returned |-> FALSE]

(* An UploadFile call that has just been entered. *)
Entered(path, filename, options) ==
    [ op |-> "UploadFile", pc |-> "entered",
      path |-> path, filename |-> filename, options |-> options,
      bounded |-> FALSE, stats |-> 0, opens |-> 0, closes |-> 0,
      puts |-> 0, heads |-> 0, fileOpen |-> FALSE, stale |-> {},
      params |-> NoParams, putOn |-> NilClient, putResult |-> "none",
      headInput |-> NoParams, headOn |-> NilClient, headResult |-> "none",
      headSize |-> -1, err |-> NoErr, file |-> NoFile ]

(* A return of UploadFile that leaves the opened file as it is. *)
ReturnErr_NoClose(u, e) == [u EXCEPT !.pc = "done", !.err = e]

(* A return of UploadFile with an error: the deferred file.Close runs. *)
ReturnErr(u, e) ==
    [u EXCEPT !.pc = "done", !.err = e,
              !.closes = IF u.fileOpen THEN @ + 1 ELSE @,
              !.fileOpen = FALSE]

NotMade == [called |-> FALSE]
NoCall == [op |-> "none", pc |-> "idle"]

InFlight == call.pc \in {"stat", "open", "params", "put", "head"}
Crashed == call.pc = "panicked"

(* The handle exists and the caller is between two calls on it. *)
Callable == bridge.kind = "s3" /\ call.pc \in {"idle", "done"}

----------------------------------------------------------------------------
(* The configurations of the caller whose handle the calls are made on. *)
S3Configs ==
    { c \in BridgeConfig :
        /\ c.Provider = <<"s", "3">>
        /\ c.AccessKey = "A" /\ c.SecretKey = "B"
        /\ ~c.EnableDebug /\ ~c.UseAsync
        /\ c.PinataJWT = "" /\ c.CredentialsFile = "" }

Init ==
    /\ bc \in S3Configs
    /\ bridge = NoBridge
    /\ made = NotMade
    /\ call = NoCall

(* The caller constructs the bridge from its configuration. *)
Construct(authOk) ==
    /\ ~made.called
    /\ LET r == NewRainbowBridge(bc, authOk)
       IN  /\ bridge' = r.ret.bridge
           /\ made' = [ called |-> TRUE, authOk |-> authOk, failed |-> r.failed,
                        adapter |-> r.adapter, warned |-> r.warned,
                        err |-> r.ret.err, attempts |-> r.ret.attempts,
                        clients |-> r.ret.clients ]
    /\ UNCHANGED <<bc, call>>

(* IsConnected that never reports a cleared client. *)
IsConnected_AlwaysTrue(s) == TRUE

(* SimpleStorageService.IsConnected *)
IsConnected(s) == s.Client # NilClient

(* UploadFile that builds a new client when it finds none. *)
UploadFile_Reconnects(path, filename, options) ==
    /\ Callable
    /\ bridge' = IF IsConnected(bridge) THEN bridge
                 ELSE [bridge EXCEPT !.Client = "s3-static-credentials"]
    /\ call' = [Entered(path, filename, options) EXCEPT
                  !.pc = "stat", !.bounded = bridge.DefaultTimeout > 0]
    /\ UNCHANGED <<bc, made>>

(* UploadFile is entered: the connected check, then the operation context. *)
UploadFile(path, filename, options) ==
    /\ Callable
    /\ call' = IF ~IsConnected(bridge)
               THEN ReturnErr(Entered(path, filename, options), ErrClientError)
               ELSE [Entered(path, filename, options) EXCEPT
                       !.pc = "stat", !.bounded = bridge.DefaultTimeout > 0]
    /\ UNCHANGED <<bc, bridge, made>>

(* UploadFile without the test of os.Stat's error. *)
UploadStat_NoExistenceCheck ==
    /\ call.pc = "stat"
    /\ call' = [call EXCEPT !.stats = @ + 1, !.pc = "open"]
    /\ UNCHANGED <<bc, bridge, made>>

(* os.Stat(path) and the IsNotExist test. *)
UploadStat ==
    /\ call.pc = "stat"
    /\ LET u == [call EXCEPT !.stats = @ + 1]
       IN  call' = IF NotExist(u.path) THEN ReturnErr(u, ErrBadRequest)
                   ELSE [u EXCEPT !.pc = "open"]
    /\ UNCHANGED <<bc, bridge, made>>

(* os.Open whose error is reported as a bad request. *)
UploadOpen_BadRequest ==
    /\ call.pc = "open"
    /\ LET u == [call EXCEPT !.opens = @ + 1]
       IN  call' = IF OpenFails(u.path) THEN ReturnErr(u, ErrBadRequest)
                   ELSE [u EXCEPT !.pc = "params", !.fileOpen = TRUE]
    /\ UNCHANGED <<bc, bridge, made>>

(* os.Open(path); on success the close is deferred. *)
UploadOpen ==
    /\ call.pc = "open"
    /\ LET u == [call EXCEPT !.opens = @ + 1]
       IN  call' = IF OpenFails(u.path) THEN ReturnErr(u, ErrFileOperationFailed)
                   ELSE [u EXCEPT !.pc = "params", !.fileOpen = TRUE]
    /\ UNCHANGED <<bc, bridge, made>>

(* The put request: the handle's defaults, then the options in map order. *)
UploadParams ==
    /\ call.pc = "params"
    /\ \E order \in IterationOrders(DOMAIN call.options) :
         call' = [call EXCEPT !.pc = "put",
                    !.params = MergeOptions(BaseParams(bridge, call.filename),
                                            call.options, order)]
    /\ UNCHANGED <<bc, bridge, made>>

(* The values a read of s.Client by the call in flight may yield: the      *)
(* current one, or, after an unsynchronised Disconnect, the one before it. *)
ClientReads == {bridge.Client} \cup call.stale

(* How a backend call ends; the deadline only under a bounded context. *)
CallOutcomes == {"ok", "error"} \cup (IF call.bounded THEN {"deadline"} ELSE {})

(* A method call through a nil client panics: the deferred close runs and  *)
(* the panic leaves UploadFile without a return value.                     *)
Panic(u) == [ReturnErr(u, NilClientPanic) EXCEPT !.pc = "panicked"]

(* PutObject whose error is dropped: the metadata read follows anyway. *)
UploadPut_IgnoresError ==
    /\ call.pc = "put"
    /\ \E client \in ClientReads, outcome \in CallOutcomes :
         LET u == [call EXCEPT !.puts = @ + 1, !.putOn = client,
                               !.putResult = IF client = NilClient THEN "panic"
                                             ELSE outcome]
         IN  call' = IF client = NilClient THEN Panic(u)
                     ELSE [u EXCEPT !.pc = "head"]
    /\ UNCHANGED <<bc, bridge, made>>

(* PutObject behind a second connected check: a nil client is reported as  *)
(* a ClientError and no write is issued.                                   *)
UploadPut_ChecksClient ==
    /\ call.pc = "put"
    /\ \E client \in ClientReads, outcome \in CallOutcomes :
         LET u == [call EXCEPT !.puts = @ + 1, !.putOn = client,
                               !.putResult = outcome]
         IN  call' = IF client = NilClient THEN ReturnErr(call, ErrClientError)
                     ELSE IF outcome # "ok"
                          THEN ReturnErr(u, ErrFileOperationFailed)
                     ELSE [u EXCEPT !.pc = "head"]
    /\ UNCHANGED <<bc, bridge, made>>

(* s.Client.PutObject(ctx, params) *)
UploadPut ==
    /\ call.pc = "put"
    /\ \E client \in ClientReads, outcome \in CallOutcomes :
         LET u == [call EXCEPT !.puts = @ + 1, !.putOn = client,
                               !.putResult = IF client = NilClient THEN "panic"
                                             ELSE outcome]
         IN  call' = IF client = NilClient THEN Panic(u)
                     ELSE IF outcome # "ok"
                          THEN ReturnErr(u, ErrFileOperationFailed)
                     ELSE [u EXCEPT !.pc = "head"]
    /\ UNCHANGED <<bc, bridge, made>>

(* An UploadedFile whose preview has the bucket and the region exchanged. *)
UploadedFile_RegionFirst(s, u, size) ==
    [ returned |-> TRUE,
      Name |-> u.filename,
      Bucket |-> s.DefaultBucket,
      Path |-> u.path,
      Preview |-> URLSimpleStorageService(s.Region, s.DefaultBucket, u.filename),
      Size |-> size,
      ProviderObject |-> "HeadObjectOutput" ]

(* The UploadedFile that UploadFile returns after a HeadObject of `size`. *)
UploadedFile(s, u, size) ==
    [ returned |-> TRUE,
      Name |-> u.filename,
      Bucket |-> s.DefaultBucket,
      Path |-> u.path,
      Preview |-> URLSimpleStorageService(s.DefaultBucket, s.Region, u.filename),
      Size |-> size,
      ProviderObject |-> "HeadObjectOutput" ]

(* s.Client.HeadObject(ctx, ...) and the return of the UploadedFile. *)
UploadHead ==
    /\ call.pc = "head"
    /\ \E client \in ClientReads, outcome \in CallOutcomes, size \in Sizes :
         LET u == [call EXCEPT !.heads = @ + 1, !.headOn = client,
                               !.headResult = IF client = NilClient THEN "panic"
                                              ELSE outcome,
                               !.headSize = IF client # NilClient /\ outcome = "ok"
                                            THEN size ELSE -1,
                               !.headInput = [ Bucket |-> bridge.DefaultBucket,
                                               Key |-> call.filename ]]
         IN  call' = IF client = NilClient THEN Panic(u)
                     ELSE IF outcome # "ok"
                          THEN ReturnErr(u, ErrFileOperationFailed)
                     ELSE [ ReturnErr(u, NoErr) EXCEPT
                              !.file = UploadedFile(bridge, u, size) ]
    /\ UNCHANGED <<bc, bridge, made>>

(* SimpleStorageService.Config: the BridgeConfig it builds (fields it does  *)
(* not set keep Go's zero values).                                         *)
ConfigOf(s) ==
    [ isNil |-> FALSE,
      Provider |-> s.Provider,
      DefaultBucket |-> s.DefaultBucket,
      Region |-> s.Region,
      AccessKey |-> s.AccessKey,
      SecretKey |-> s.SecretKey,
      DefaultTimeout |-> s.DefaultTimeout,
      EnableDebug |-> s.EnableDebug,
      PublicRead |-> FALSE,
      UseAsync |-> s.UseAsync,
      PinataJWT |-> "",
      CredentialsFile |-> "",
      Project |-> "" ]

(* A call other than UploadFile, returned. *)
Done(op, ret, err) == [op |-> op, pc |-> "done", ret |-> ret, err |-> err]

Config ==
    /\ Callable
    /\ call' = Done("Config", ConfigOf(bridge), NoErr)
    /\ UNCHANGED <<bc, bridge, made>>

(* A Disconnect that wipes the handle's keys along with the client. *)
Disconnected_ClearsCredentials(s) ==
    [s EXCEPT !.Client = NilClient, !.AccessKey = "", !.SecretKey = ""]

(* SimpleStorageService.Disconnect: s.Client = nil; return nil. *)
Disconnected(s) == [s EXCEPT !.Client = NilClient]

(* Disconnect that reports an error on a handle already disconnected. *)
Disconnect_ErrorWhenClosed ==
    /\ Callable
    /\ bridge' = Disconnected(bridge)
    /\ call' = Done("Disconnect", "nil",
                    IF bridge.Client = NilClient THEN ErrClientError ELSE NoErr)
    /\ UNCHANGED <<bc, made>>

Disconnect ==
    /\ Callable
    /\ bridge' = Disconnected(bridge)
    /\ call' = Done("Disconnect", "nil", NoErr)
    /\ UNCHANGED <<bc, made>>

(* Disconnect called from another goroutine while UploadFile is in flight. *)
(* Nothing orders its write with the reads of the call in flight, which    *)
(* may go on yielding the client reference it replaced.                    *)
DisconnectInFlight ==
    /\ bridge.kind = "s3"
    /\ InFlight
    /\ bridge' = Disconnected(bridge)
    /\ call' = [call EXCEPT !.stale = @ \cup {bridge.Client}]
    /\ UNCHANGED <<bc, made>>

IsConnectedCall ==
    /\ Callable
    /\ call' = Done("IsConnected", IsConnected(bridge), NoErr)
    /\ UNCHANGED <<bc, bridge, made>>

(* SimpleStorageService.UploadFolder: return nil, nil. *)
FolderOptions == { o \in OptionMaps : DOMAIN o \subseteq {OptACL} }

(* UploadFolder that starts with UploadFile's connected check. *)
UploadFolder_RequiresConnection(path, options) ==
    /\ Callable
    /\ call' = Done("UploadFolder", "nil",
                    IF IsConnected(bridge) THEN NoErr ELSE ErrClientError)
    /\ UNCHANGED <<bc, bridge, made>>

UploadFolder(path, options) ==
    /\ Callable
    /\ call' = Done("UploadFolder", "nil", NoErr)
    /\ UNCHANGED <<bc, bridge, made>>

Next ==
    \/ \E authOk \in BOOLEAN : Construct(authOk)
    \/ \E path \in Paths, filename \in Filenames, options \in OptionMaps :
         UploadFile(path, filename, options)
    \/ UploadStat
    \/ UploadOpen
    \/ UploadParams
    \/ UploadPut
    \/ UploadHead
    \/ Config
    \/ Disconnect
    \/ DisconnectInFlight
    \/ IsConnectedCall
    \/ \E path \in Paths, options \in FolderOptions : UploadFolder(path, options)

Spec == Init /\ [][Next]_vars

(* The factory alone, on every configuration. *)
InitFactory ==
    /\ bc \in Configs
    /\ bridge = NoBridge
    /\ made = NotMade
    /\ call = NoCall

NextFactory == \E authOk \in BOOLEAN : Construct(authOk)

SpecFactory == InitFactory /\ [][NextFactory]_vars

----------------------------------------------------------------------------
(* The claims about the factory, under SpecFactory.                        *)

(* C1: a configuration whose backend identifier equals a supported one up  *)
(* to letter case passes validation and is dispatched to the adapter       *)
(* constructor of the lower-case spelling; the default branch of the       *)
(* dispatch is never taken once the registry check has passed.             *)
C1_CaseInsensitiveDispatch ==
    ( /\ made.called
      /\ ~bc.isNil
      /\ bc.Provider # <<>>
      /\ ToLower(bc.Provider) \in DOMAIN providers )
    => /\ made.failed = "none"
       /\ made.adapter # "default"
       /\ made.adapter
            = Dispatch([bc EXCEPT !.Provider = ToLower(@)], made.authOk).adapter

(* C6: a nil configuration, an empty backend identifier or one that is not *)
(* in the registry gives BadRequest, no handle, no adapter constructor and *)
(* no client creation; an empty default bucket changes nothing in what     *)
(* Construct returns.                                                      *)
C6_InvalidConfigIsBadRequest ==
    made.called =>
      /\ ( \/ bc.isNil
           \/ bc.Provider = <<>>
           \/ ToLower(bc.Provider) \notin DOMAIN providers )
         => /\ made.err = ErrBadRequest
            /\ bridge = NoBridge
            /\ made.adapter = "none"
            /\ made.attempts = 0
            /\ made.clients = 0
      /\ (~bc.isNil /\ bc.DefaultBucket = "")
         => /\ made.err
                 = NewRainbowBridge([bc EXCEPT !.DefaultBucket = "b"],
                                    made.authOk).ret.err
            /\ (bridge = NoBridge) = (made.err # NoErr)

(* C6's case: an identifier outside the registry has been rejected. *)
C6_Witness ==
    /\ made.called
    /\ ~bc.isNil
    /\ bc.Provider = <<"a", "z", "u", "r", "e">>
    /\ bc.DefaultBucket = ""
    /\ made.err = ErrBadRequest
    /\ bridge = NoBridge

----------------------------------------------------------------------------
(* The claims about the S3 adapter, under Spec.                            *)

(* C5: the s3 handle holds the configuration's default bucket, region,     *)
(* keys, timeout and debug, public-read and async flags, and an upload     *)
(* runs under a bounded context exactly when the configured timeout is     *)
(* positive.                                                               *)
C5_HandleHoldsConfiguration ==
    bridge.kind = "s3" =>
      /\ bridge.DefaultBucket = bc.DefaultBucket
      /\ bridge.Region = bc.Region
      /\ bridge.AccessKey = bc.AccessKey
      /\ bridge.SecretKey = bc.SecretKey
      /\ bridge.PublicRead = bc.PublicRead
      /\ bridge.DefaultTimeout = bc.DefaultTimeout
      /\ bridge.EnableDebug = bc.EnableDebug
      /\ bridge.UseAsync = bc.UseAsync
      /\ (call.op = "UploadFile" /\ call.stats > 0)
         => call.bounded = (bc.DefaultTimeout > 0)


(* C2: an upload entered on a disconnected handle returns ClientError      *)
(* whatever its path, name and options, without a stat, an open, a write   *)
(* or a metadata read.                                                     *)
C2_DisconnectedUploadIsClientError ==
    [][ (Callable /\ bridge.Client = NilClient /\ call'.op = "UploadFile")
        => /\ call'.pc = "done"
           /\ call'.err = ErrClientError
           /\ call'.file = NoFile
           /\ call'.stats = 0 /\ call'.opens = 0 /\ ~call'.fileOpen
           /\ call'.puts = 0 /\ call'.heads = 0 ]_vars

(* C2's case: after Disconnect, an upload of a path that does not exist    *)
(* has returned ClientError.                                               *)
C2_Witness ==
    /\ call.op = "UploadFile"
    /\ call.pc = "done"
    /\ bridge.Client = NilClient
    /\ call.path = "/missing"
    /\ call.options # <<>>
    /\ call.err = ErrClientError

(* C3: the write and the metadata read are each issued at most once, the   *)
(* read only after a successful write; an UploadedFile is returned exactly *)
(* when both succeeded, and a failure of either returns                    *)
(* FileOperationFailed without one.                                        *)
C3_NoPartialSuccess ==
    call.op = "UploadFile" =>
      /\ call.puts <= 1
      /\ call.heads <= 1
      /\ call.heads = 1 => (call.puts = 1 /\ call.putResult = "ok")
      /\ call.file.returned
           <=> (call.pc = "done" /\ call.putResult = "ok" /\ call.headResult = "ok")
      /\ call.file.returned => call.err = NoErr
      /\ ( \/ call.putResult \in {"error", "deadline"}
           \/ call.headResult \in {"error", "deadline"} )
         => /\ call.pc = "done"
            /\ call.err = ErrFileOperationFailed
            /\ call.file = NoFile

(* C3's case: the write succeeded and the metadata read failed. *)
C3_Witness ==
    /\ call.op = "UploadFile"
    /\ call.pc = "done"
    /\ call.putResult = "ok"
    /\ call.headResult = "error"
    /\ call.err = ErrFileOperationFailed
    /\ call.file = NoFile

(* C4: an access-control option "private" or "public-read" decides the     *)
(* grant of the put request whatever the handle's public-read flag; with   *)
(* no access-control option the grant is public-read exactly when the flag *)
(* is set.                                                                 *)
C4_AccessControlResolution ==
    (call.op = "UploadFile" /\ call.params # NoParams) =>
      LET o == call.options
      IN  /\ (OptACL \in DOMAIN o /\ o[OptACL] = StringValue("private"))
             => call.params.ACL = "private"
          /\ (OptACL \in DOMAIN o /\ o[OptACL] = StringValue("public-read"))
             => call.params.ACL = "public-read"
          /\ OptACL \notin DOMAIN o
             => call.params.ACL = (IF bridge.PublicRead THEN "public-read" ELSE "")

(* C4's case: a public-read handle has written with the grant private. *)
C4_Witness ==
    /\ call.op = "UploadFile"
    /\ call.puts = 1
    /\ bridge.PublicRead
    /\ OptACL \in DOMAIN call.options
    /\ call.options[OptACL] = StringValue("private")
    /\ call.params.ACL = "private"

(* C7: on a connected handle a source path that does not exist gives       *)
(* BadRequest with no open, write or metadata read; one that exists but    *)
(* cannot be opened gives FileOperationFailed with no write or metadata    *)
(* read; no open happens before the existence check.                       *)
C7_MissingPathIsBadRequest ==
    call.op = "UploadFile" =>
      /\ call.opens > 0 => call.stats = 1
      /\ call.path = "/missing"
         => /\ call.opens = 0 /\ ~call.fileOpen
            /\ call.puts = 0 /\ call.heads = 0
      /\ call.path = "/unreadable"
         => ~call.fileOpen /\ call.puts = 0 /\ call.heads = 0
      /\ (call.pc = "done" /\ call.stats > 0 /\ call.path = "/missing")
         => call.err = ErrBadRequest /\ call.file = NoFile
      /\ (call.pc = "done" /\ call.stats > 0 /\ call.path = "/unreadable")
         => call.err = ErrFileOperationFailed /\ call.file = NoFile

(* C7's case: a connected handle has rejected a path that does not exist. *)
C7_Witness ==
    /\ call.op = "UploadFile"
    /\ call.pc = "done"
    /\ call.stats = 1
    /\ call.path = "/missing"
    /\ bridge.Client # NilClient
    /\ call.err = ErrBadRequest

(* C8, as stated: every error of an upload on a connected handle is        *)
(* FileOperationFailed, and the only other kind is ClientError, for a      *)
(* disconnected handle.                                                    *)
C8_OnlyFileOperationFailed ==
    (call.op = "UploadFile" /\ call.pc = "done" /\ call.err # NoErr) =>
      \/ call.err = ErrFileOperationFailed /\ call.stats = 1
      \/ call.err = ErrClientError /\ call.stats = 0 /\ bridge.Client = NilClient

(* C8, amended: every error of an upload on a connected handle is          *)
(* FileOperationFailed, except BadRequest for a source path that does not  *)
(* exist; ClientError is returned only for a disconnected handle, and      *)
(* Unauthorized never.                                                     *)
C8_ErrorKinds ==
    (call.op = "UploadFile" /\ call.pc = "done" /\ call.err # NoErr) =>
      \/ call.err = ErrFileOperationFailed /\ call.stats = 1
      \/ /\ call.err = ErrBadRequest
         /\ call.stats = 1 /\ call.opens = 0
         /\ call.path = "/missing"
      \/ call.err = ErrClientError /\ call.stats = 0 /\ bridge.Client = NilClient

(* C8's case: a connected handle has returned BadRequest. *)
C8_Witness ==
    /\ call.op = "UploadFile"
    /\ call.pc = "done"
    /\ call.stats = 1
    /\ call.err = ErrBadRequest

(* C9: Disconnect returns no error and leaves the client reference nil in  *)
(* every handle state, changes nothing else, and changes nothing at all on *)
(* a handle already disconnected; IsConnected returns true exactly when    *)
(* the client reference is not nil.                                        *)
C9_DisconnectIdempotent ==
    [][ /\ (Callable /\ call'.op = "Disconnect")
           => /\ call'.err = NoErr
              /\ bridge'.Client = NilClient
              /\ bridge' = [bridge EXCEPT !.Client = NilClient]
              /\ bridge.Client = NilClient => bridge' = bridge
        /\ call'.op = "Disconnect"
           => call'.err = NoErr /\ bridge'.Client = NilClient
        /\ call'.op = "IsConnected"
           => call'.ret = (bridge'.Client # NilClient) ]_vars

(* C9's case: Disconnect has returned on a handle, IsConnected has then    *)
(* reported false.                                                         *)
C9_Witness ==
    /\ call.op = "IsConnected"
    /\ call.ret = FALSE
    /\ bridge.kind = "s3"
    /\ bridge.Client = NilClient

(* C10: entries with an unrecognized key, a value of the wrong type or an  *)
(* access-control string other than "public-read" and "private" are        *)
(* dropped: the put request is the one the remaining entries give, and     *)
(* building it never ends the call.                                        *)
C10_Ignored(k, v) ==
    CASE k = OptACL -> ~(v.type = "string" /\ v.val \in {"public-read", "private"})
      [] k = OptContentType -> v.type # "string"
      [] k = OptMetadata -> v.type # "map[string]string"
      [] OTHER -> TRUE

C10_Kept(o) == [k \in {x \in DOMAIN o : ~C10_Ignored(x, o[x])} |-> o[k]]

C10_Expected(s, filename, kept) ==
    [ Bucket |-> s.DefaultBucket,
      Key |-> filename,
      Body |-> "file",
      ACL |-> IF OptACL \in DOMAIN kept THEN kept[OptACL].val
              ELSE IF s.PublicRead THEN "public-read" ELSE "",
      ContentType |-> IF OptContentType \in DOMAIN kept
                      THEN kept[OptContentType].val ELSE Unset,
      Metadata |-> IF OptMetadata \in DOMAIN kept
                   THEN kept[OptMetadata].val ELSE Unset ]

C10_PermissiveMerge ==
    [][ (call.pc = "params" /\ call'.pc # "params")
        => /\ call'.pc = "put"
           /\ call'.err = NoErr
           /\ call'.params
                = C10_Expected(bridge, call.filename, C10_Kept(call.options)) ]_vars

(* C10's case: a request built from options of which three are dropped. *)
C10_Witness ==
    /\ call.op = "UploadFile"
    /\ call.pc = "put"
    /\ DOMAIN call.options = {OptACL, OptContentType, "cache-control"}
    /\ call.options[OptACL] = StringValue("authenticated-read")
    /\ call.options[OptContentType].type = "int"
    /\ bridge.PublicRead
    /\ call.params.ACL = "public-read"
    /\ call.params.ContentType = Unset

(* C11: the record Config returns carries, for every configuration field  *)
(* the handle holds, the handle's current value of that field.             *)
C11_ConfigReflectsHandle ==
    (bridge.kind = "s3" /\ call.op = "Config") =>
      /\ call.ret.Provider = bridge.Provider
      /\ call.ret.DefaultBucket = bridge.DefaultBucket
      /\ call.ret.Region = bridge.Region
      /\ call.ret.AccessKey = bridge.AccessKey
      /\ call.ret.SecretKey = bridge.SecretKey
      /\ call.ret.DefaultTimeout = bridge.DefaultTimeout
      /\ call.ret.EnableDebug = bridge.EnableDebug
      /\ call.ret.PublicRead = bridge.PublicRead
      /\ call.ret.UseAsync = bridge.UseAsync

(* C12: a configuration that selects the pinata backend (the identifier    *)
(* in any letter case) with an empty bearer token gets Unauthorized, no    *)
(* handle and no client creation attempt; with a token it gets a handle,   *)
(* again with no client creation attempt.                                  *)
C12_SelectsPinata ==
    /\ ~bc.isNil
    /\ ToLower(bc.Provider) = <<"p", "i", "n", "a", "t", "a">>

C12_PinataToken ==
    (made.called /\ C12_SelectsPinata) =>
      /\ made.attempts = 0
      /\ made.clients = 0
      /\ IF bc.PinataJWT = ""
         THEN made.err = ErrUnauthorized /\ bridge = NoBridge
         ELSE made.err = NoErr /\ bridge.kind = "pinata"

(* C13: a successful upload of (path, name) on a handle with default       *)
(* bucket b and region r returns an UploadedFile with that name, bucket b, *)
(* that path, the size the metadata read reported and the preview          *)
(* https://b.s3.r.amazonaws.com/name; the write and the metadata read      *)
(* both address bucket b and key name.                                     *)
C13_Succeeded ==
    call.op = "UploadFile" /\ call.pc = "done" /\ call.err = NoErr

C13_UploadedFile ==
    C13_Succeeded =>
      /\ call.file.returned
      /\ call.file.Name = call.filename
      /\ call.file.Bucket = bridge.DefaultBucket
      /\ call.file.Path = call.path
      /\ call.headSize \in Sizes
      /\ call.file.Size = call.headSize
      /\ (bridge.DefaultBucket = "b" /\ bridge.Region = "r"
            /\ call.filename = "photo.png")
         => call.file.Preview = "https://b.s3.r.amazonaws.com/photo.png"
      /\ (bridge.DefaultBucket = "" /\ bridge.Region = "r"
            /\ call.filename = "photo.png")
         => call.file.Preview = "https://.s3.r.amazonaws.com/photo.png"
      /\ call.puts = 1 /\ call.heads = 1
      /\ call.params.Bucket = bridge.DefaultBucket
      /\ call.params.Key = call.filename
      /\ call.headInput.Bucket = bridge.DefaultBucket
      /\ call.headInput.Key = call.filename

(* C13's case: an upload into bucket b has returned a file of 1024 bytes. *)
C13_Witness ==
    /\ C13_Succeeded
    /\ bridge.DefaultBucket = "b"
    /\ call.path = "/photo.png"
    /\ call.file.Size = 1024
    /\ call.file.Preview = "https://b.s3.r.amazonaws.com/photo.png"

C16_NoCheckAfterEntry ==
    [][ (call.pc \in {"put", "head"} /\ call'.pc # call.pc)
        => LET on == IF call.pc = "put" THEN call'.putOn ELSE call'.headOn
           IN  /\ call'.err # ErrClientError
               /\ call.pc = "put" => call'.puts = call.puts + 1
               /\ call.pc = "head" => call'.heads = call.heads + 1
               /\ on \in ClientReads
               /\ (on = NilClient) = (call'.pc = "panicked")
               /\ on = NilClient => call.stale # {} ]_vars

(* C16's case: the upload passed the connected check, stat and open, a     *)
(* Disconnect then cleared the client, and the write went to a nil client. *)
C16_Witness ==
    /\ call.op = "UploadFile"
    /\ call.pc = "panicked"
    /\ call.stats = 1
    /\ call.opens = 1
    /\ call.stale # {}
    /\ bridge.Client = NilClient
    /\ call.puts = 1
    /\ call.putOn = NilClient
    /\ call.err = NilClientPanic

(* C17: the file an upload opens is closed on every exit path.  The file   *)
(* is open only between the successful open and the end of the call; a     *)
(* call that has ended (returned or panicked) holds no open file and has   *)
(* closed the file once if it opened it; a call that ended before or in    *)
(* the open never held one; no call opens the file more than once.         *)
C17_Opened == call.opens = 1 /\ ~OpenFails(call.path)

C17_FileReleased ==
    call.op = "UploadFile" =>
      /\ call.opens <= 1
      /\ call.closes <= 1
      /\ call.fileOpen = (call.pc \in {"params", "put", "head"})
      /\ call.fileOpen => C17_Opened /\ call.closes = 0
      /\ call.pc \in {"done", "panicked"}
         => /\ ~call.fileOpen
            /\ call.closes = IF C17_Opened THEN 1 ELSE 0
      /\ ( /\ call.pc = "done"
           /\ \/ call.err \in {ErrClientError, ErrBadRequest}
              \/ call.err = ErrFileOperationFailed /\ call.puts = 0 )
         => ~C17_Opened /\ call.closes = 0

(* C17's case: the write failed after the file was opened, and the file    *)
(* was closed on the way out.                                              *)
C17_Witness ==
    /\ call.op = "UploadFile"
    /\ call.pc = "done"
    /\ call.opens = 1
    /\ call.putResult = "error"
    /\ call.err = ErrFileOperationFailed
    /\ call.closes = 1
    /\ ~call.fileOpen

(* C18: there is no automatic reconnection.  No step taken on a handle     *)
(* that is not connected leaves it connected, whatever is called on it,    *)
(* and an upload entered on it returns ClientError.                        *)
C18_NoReconnection ==
    [][ (bridge.kind = "s3" /\ ~IsConnected(bridge))
        => /\ bridge'.kind = "s3"
           /\ ~IsConnected(bridge')
           /\ (Callable /\ call'.op = "UploadFile")
              => call'.pc = "done" /\ call'.err = ErrClientError ]_vars

(* C18's case: after a Disconnect, an upload of a file that exists has     *)
(* returned ClientError and the handle is still not connected.             *)
C18_Witness ==
    /\ bridge.kind = "s3"
    /\ ~IsConnected(bridge)
    /\ call.op = "UploadFile"
    /\ call.pc = "done"
    /\ call.path = "/photo.png"
    /\ call.stale = {}
    /\ call.stats = 0
    /\ call.err = ErrClientError

(* C19: frame condition.  No step changes the caller's configuration      *)
(* record; once the handle exists, no step changes any of its fields but   *)
(* the client reference, and the client reference changes only in a        *)
(* Disconnect (between calls or during an upload), which sets it to nil:   *)
(* UploadFile at each of its steps, UploadFolder, Config and IsConnected   *)
(* leave the whole handle as it was.                                       *)
C19_DisconnectStep ==
    \/ Callable /\ call'.op = "Disconnect"
    \/ InFlight /\ call'.pc = call.pc /\ call'.stale # call.stale

C19_Frame ==
    [][ /\ bc' = bc
        /\ bridge.kind = "s3"
           => /\ bridge' \in {bridge, [bridge EXCEPT !.Client = NilClient]}
              /\ bridge' # bridge => C19_DisconnectStep
              /\ (call'.op \in {"UploadFile", "UploadFolder", "Config", "IsConnected"}
                    /\ ~C19_DisconnectStep)
                 => bridge' = bridge ]_vars

(* C19's case: an upload failed in the metadata read and the handle is     *)
(* still connected, holding what the constructor put in it.                *)
C19_Witness ==
    /\ call.op = "UploadFile"
    /\ call.pc = "done"
    /\ call.headResult = "error"
    /\ call.err = ErrFileOperationFailed
    /\ call.stale = {}
    /\ bridge = newSimpleStorageService(bc, TRUE).bridge
    /\ bridge.Client = "s3-static-credentials"

(* C20: the put request does not depend on the order in which the options  *)
(* map is iterated: whatever the handle's public-read default and the      *)
(* options, every iteration order of the entries gives the access-control  *)
(* grant, content type and metadata of the request that was built.         *)
C20_OrderIndependent ==
    (call.op = "UploadFile" /\ call.params # NoParams) =>
      \A order \in IterationOrders(DOMAIN call.options) :
        LET p == MergeOptions(BaseParams(bridge, call.filename),
                              call.options, order)
        IN  /\ p.ACL = call.params.ACL
            /\ p.ContentType = call.params.ContentType
            /\ p.Metadata = call.params.Metadata
            /\ p = call.params

(* C20's case: a request built from three valid entries, which have six    *)
(* iteration orders, on a handle whose public-read default is set.         *)
C20_Witness ==
    /\ call.op = "UploadFile"
    /\ call.params # NoParams
    /\ bridge.PublicRead
    /\ DOMAIN call.options = {OptACL, OptContentType, OptMetadata}
    /\ Cardinality(IterationOrders(DOMAIN call.options)) = 6
    /\ call.params.ACL = ObjectCannedACLPrivate
    /\ call.params.ContentType # Unset
    /\ call.params.Metadata # Unset

====
